---- MODULE Spec2Model ----
(***************************************************************************)
(* State-machine model of src/SystemFile.py: the SalesData table, the five *)
(* analysis classes and the menu loop of main().  The dataframe library's  *)
(* operations used by the source (boolean-mask filtering, groupby with a   *)
(* monthly / weekly Grouper, groupby-sum, sort_values, cut, value_counts)  *)
(* are modelled by what they compute on a table of rows.                   *)
(***************************************************************************)
EXTENDS Integers, Sequences, FiniteSets, TLC

VARIABLES file, df, pc, choice, branch_name, product_name, bins_text, result, stdout

vars == <<file, df, pc, choice, branch_name, product_name, bins_text, result, stdout>>

(***************************************************************************)
(* Bounds of the model.                                                    *)
(***************************************************************************)
MaxRows == 2
MaxBins == 2

(***************************************************************************)
(* Calendar arithmetic (the Date column is parsed into timestamps).        *)
(***************************************************************************)
Date(y, m, d) == [year |-> y, month |-> m, day |-> d]

IsLeap(y) == (y % 4 = 0 /\ y % 100 # 0) \/ y % 400 = 0

DaysInMonth(y, m) ==
    IF m = 2 THEN (IF IsLeap(y) THEN 29 ELSE 28)
    ELSE IF m \in {4, 6, 9, 11} THEN 30 ELSE 31

\* Number of the calendar month of a date, counted from year 0.
MonthIndex(date) == date.year * 12 + (date.month - 1)

\* The month-end timestamp that labels a monthly bucket (freq='M').
MonthEnd(idx) ==
    LET y == idx \div 12
        m == (idx % 12) + 1
    IN  Date(y, m, DaysInMonth(y, m))

RECURSIVE DaysBeforeMonth(_, _)
DaysBeforeMonth(y, m) ==
    IF m = 1 THEN 0 ELSE DaysBeforeMonth(y, m - 1) + DaysInMonth(y, m - 1)

\* Proleptic Gregorian ordinal of a date (0001-01-01 is day 1).
Ordinal(date) ==
    LET y == date.year - 1
    IN  365 * y + (y \div 4) - (y \div 100) + (y \div 400)
            + DaysBeforeMonth(date.year, date.month) + date.day

\* Day of the week, Monday = 0 ... Sunday = 6.
Weekday(date) == (Ordinal(date) + 6) % 7

DaysInYear(y) == IF IsLeap(y) THEN 366 ELSE 365

\* The date that is day n (from 1) of year y, running into later years.
RECURSIVE FromYearDay(_, _)
FromYearDay(y, n) ==
    IF n > DaysInYear(y) THEN FromYearDay(y + 1, n - DaysInYear(y))
    ELSE LET m == CHOOSE k \in 1..12 :
                      /\ DaysBeforeMonth(y, k) < n
                      /\ n <= DaysBeforeMonth(y, k) + DaysInMonth(y, k)
         IN  Date(y, m, n - DaysBeforeMonth(y, m))

AddDays(date, k) ==
    FromYearDay(date.year, DaysBeforeMonth(date.year, date.month) + date.day + k)

\* Ordinal of the Sunday that closes the week of a date (freq='W' is W-SUN).
WeekEnd(date) == Ordinal(date) + (6 - Weekday(date))

(***************************************************************************)
(* The rows a CSV file may hold, and the files main() may be started on.   *)
(***************************************************************************)
Dates == {Date(2024, 1, 15), Date(2024, 2, 20), Date(2024, 4, 3)}
Products == {"X", "Y"}
\* <<Branch, Price, Quantity, Total Amount>>; the total of the second is not
\* Price * Quantity.
Sales == {<<"A", 10, 2, 20>>, <<"B", 5, 1, 8>>}

Rows ==
    {[Date |-> d, Branch |-> a[1], Product |-> p,
      Price |-> a[2], Quantity |-> a[3], TotalAmount |-> a[4]] :
        d \in Dates, p \in Products, a \in Sales}

Tables == UNION {[1..n -> Rows] : n \in 0..MaxRows}

NoFile == [exists |-> FALSE, rows |-> <<>>]

Files == {NoFile} \cup {[exists |-> TRUE, rows |-> t] : t \in Tables}

(***************************************************************************)
(* Values and outcomes.                                                    *)
(***************************************************************************)
\* A dataframe: whether it has the CSV's columns, and its rows in order.
DataFrame(c, r) == [cols |-> c, rows |-> r]

Ok(v) == [ok |-> TRUE, val |-> v, err |-> ""]
Raise(e) == [ok |-> FALSE, val |-> <<>>, err |-> e]
NoResult == [ok |-> TRUE, val |-> <<>>, err |-> "none"]

RECURSIVE SumTotalAmount(_)
SumTotalAmount(rows) ==
    IF rows = <<>> THEN 0
    ELSE Head(rows).TotalAmount + SumTotalAmount(Tail(rows))

RECURSIVE SumQuantity(_)
SumQuantity(rows) ==
    IF rows = <<>> THEN 0
    ELSE Head(rows).Quantity + SumQuantity(Tail(rows))

SetMin(S) == CHOOSE x \in S : \A y \in S : x <= y
SetMax(S) == CHOOSE x \in S : \A y \in S : y <= x

(***************************************************************************)
(* class SalesData                                                         *)
(***************************************************************************)
\* Variant: the FileNotFoundError of read_csv is not caught.
SalesData_init_Raising(f) ==
    IF f.exists
    THEN [df |-> DataFrame(TRUE, f.rows), out |-> {}, raised |-> FALSE]
    ELSE [df |-> DataFrame(FALSE, <<>>), out |-> {}, raised |-> TRUE]

\* SalesData.__init__: read_csv, or the diagnostic and pd.DataFrame().
SalesData_init(f) ==
    IF f.exists
    THEN [df |-> DataFrame(TRUE, f.rows), out |-> {}, raised |-> FALSE]
    ELSE [df |-> DataFrame(FALSE, <<>>), out |-> {"file_not_found"}, raised |-> FALSE]

get_data(d) == d

(***************************************************************************)
(* class MonthlySalesAnalysis                                              *)
(***************************************************************************)
\* df[df["Branch"] == branch_name]
FilterBranch(rows, b) ==
    LET Keep(r) == r.Branch = b IN SelectSeq(rows, Keep)

\* Variant: the bucket total recomputed as Price * Quantity.
RECURSIVE SumPriceQuantity(_)
SumPriceQuantity(rows) ==
    IF rows = <<>> THEN 0
    ELSE Head(rows).Price * Head(rows).Quantity + SumPriceQuantity(Tail(rows))

MonthBucketSum_PriceQuantity(rows, idx) ==
    LET InMonth(r) == MonthIndex(r.Date) = idx
    IN  SumPriceQuantity(SelectSeq(rows, InMonth))

\* Sum of "Total Amount" over the rows of one monthly bucket.
MonthBucketSum(rows, idx) ==
    LET InMonth(r) == MonthIndex(r.Date) = idx
    IN  SumTotalAmount(SelectSeq(rows, InMonth))

\* Variant: a plain groupby on the month, which keeps populated months only.
MonthBuckets_Populated(rows) ==
    LET idxs == {MonthIndex(rows[i].Date) : i \in 1..Len(rows)}
    IN  CHOOSE s \in [1..Cardinality(idxs) -> idxs] :
            \A i, j \in 1..Cardinality(idxs) : i < j => s[i] < s[j]

\* The bucket labels of the monthly Grouper: every month from the first to
\* the last month that has a row.
MonthBuckets(rows) ==
    LET idxs == {MonthIndex(rows[i].Date) : i \in 1..Len(rows)}
        lo == SetMin(idxs)
        hi == SetMax(idxs)
    IN  [i \in 1..(hi - lo + 1) |-> lo + (i - 1)]

\* groupby(pd.Grouper(key='Date', freq='M'))["Total Amount"].sum()
GroupByMonth(rows) ==
    IF rows = <<>> THEN <<>>
    ELSE LET b == MonthBuckets(rows)
         IN  [i \in 1..Len(b) |->
                 [Date |-> MonthEnd(b[i]), TotalAmount |-> MonthBucketSum(rows, b[i])]]

\* The outcomes of analyze_monthly_sales.  A frame without columns has no
\* "Branch" / "Date" (KeyError).  A file with a header and no rows leaves
\* the Date column without a datetime type in some library versions, where
\* the Grouper raises TypeError.
analyze_monthly_sales(d, b) ==
    IF ~get_data(d).cols THEN {Raise("KeyError")}
    ELSE LET rows == IF b # "" THEN FilterBranch(get_data(d).rows, b)
                     ELSE get_data(d).rows
         IN  IF get_data(d).rows = <<>>
             THEN {Ok(<<>>), Raise("TypeError")}
             ELSE {Ok(GroupByMonth(rows))}

(***************************************************************************)
(* class PriceAnalysis                                                     *)
(***************************************************************************)
\* df[df["Product"] == product_name]
FilterProduct(rows, p) ==
    LET Keep(r) == r.Product = p IN SelectSeq(rows, Keep)

\* product_df[["Date", "Price"]]
SelectDatePrice(rows) ==
    [i \in 1..Len(rows) |-> [Date |-> rows[i].Date, Price |-> rows[i].Price]]

analyze_product_prices(d, p) ==
    IF ~get_data(d).cols THEN {Raise("KeyError")}
    ELSE {Ok(SelectDatePrice(FilterProduct(get_data(d).rows, p)))}

(***************************************************************************)
(* class WeeklySalesAnalysis                                               *)
(***************************************************************************)
WeekBucketSum(rows, w) ==
    LET InWeek(r) == WeekEnd(r.Date) = w
    IN  SumTotalAmount(SelectSeq(rows, InWeek))

\* The bucket labels of the weekly Grouper: every week from the first to the
\* last week that has a row.
WeekBuckets(rows) ==
    LET ends == {WeekEnd(rows[i].Date) : i \in 1..Len(rows)}
        lo == SetMin(ends)
        hi == SetMax(ends)
    IN  [i \in 1..(((hi - lo) \div 7) + 1) |-> lo + 7 * (i - 1)]

\* groupby(pd.Grouper(key='Date', freq='W'))["Total Amount"].sum()
GroupByWeek(rows) ==
    IF rows = <<>> THEN <<>>
    ELSE LET b == WeekBuckets(rows)
             first == CHOOSE i \in 1..Len(rows) : WeekEnd(rows[i].Date) = b[1]
         IN  [i \in 1..Len(b) |->
                 [Date |-> AddDays(rows[first].Date, b[i] - Ordinal(rows[first].Date)),
                  TotalAmount |-> WeekBucketSum(rows, b[i])]]

analyze_weekly_sales(d) ==
    IF ~get_data(d).cols THEN {Raise("KeyError")}
    ELSE IF get_data(d).rows = <<>>
         THEN {Ok(<<>>), Raise("TypeError")}
         ELSE {Ok(GroupByWeek(get_data(d).rows))}

(***************************************************************************)
(* class ProductPreferenceAnalysis                                         *)
(***************************************************************************)
\* groupby("Product")["Quantity"].sum(): one entry per product of the rows.
GroupByProduct(rows) ==
    {[Product |-> p,
      Quantity |-> LET Same(r) == r.Product = p IN SumQuantity(SelectSeq(rows, Same))] :
        p \in {rows[i].Product : i \in 1..Len(rows)}}

\* Variant: sort_values() with its default ascending order.
Ascending(s) == \A i \in 1..(Len(s) - 1) : s[i].Quantity <= s[i + 1].Quantity

\* The order sort_values(ascending=False) asks for.
Descending(s) == \A i \in 1..(Len(s) - 1) : s[i].Quantity >= s[i + 1].Quantity

\* sort_values(ascending=False): the sort is not stable, so entries with
\* equal sums may come out in any order.
SortValues(series) ==
    {s \in [1..Cardinality(series) -> series] :
        /\ \A i, j \in 1..Cardinality(series) : i # j => s[i] # s[j]
        /\ Descending(s)}

analyze_product_preferences(d) ==
    IF ~get_data(d).cols THEN {Raise("KeyError")}
    ELSE {Ok(s) : s \in SortValues(GroupByProduct(get_data(d).rows))}

(***************************************************************************)
(* class SalesDistributionAnalysis                                         *)
(***************************************************************************)
Abs(x) == IF x < 0 THEN -x ELSE x

\* Variant: the plain linspace over [mn, mx], no edge adjusted.
BinEdges_Unadjusted(mn, mx, n) ==
    [i \in 0..n |-> 1000 * (n * mn + i * (mx - mn))]

\* The n + 1 bin edges pd.cut(x, bins=n) computes from the range [mn, mx] of
\* x, in units of 1 / (1000 * n) so that they stay integers: linspace over
\* the range, the range widened by 0.1% of |mn| on both sides when mn = mx,
\* the lowest edge lowered by 0.1% of the range otherwise.
BinEdges(mn, mx, n) ==
    IF mn = mx
    THEN LET lo == 1000 * mn - (IF mn # 0 THEN Abs(mn) ELSE 1)
             hi == 1000 * mx + (IF mx # 0 THEN Abs(mx) ELSE 1)
         IN  [i \in 0..n |-> n * lo + i * (hi - lo)]
    ELSE [i \in 0..n |->
             IF i = 0 THEN 1000 * n * mn - n * (mx - mn)
             ELSE 1000 * (n * mn + i * (mx - mn))]

\* Rows whose "Total Amount" lies in the right-closed interval (left, right].
CountIn(rows, left, right, n) ==
    LET In(r) == left < 1000 * n * r.TotalAmount /\ 1000 * n * r.TotalAmount <= right
    IN  Len(SelectSeq(rows, In))

\* pd.cut(df["Total Amount"], bins=n).value_counts().sort_index()
CutValueCounts(rows, n) ==
    LET xs == {rows[i].TotalAmount : i \in 1..Len(rows)}
        e == BinEdges(SetMin(xs), SetMax(xs), n)
    IN  [i \in 1..n |->
            [left |-> e[i - 1], right |-> e[i],
             count |-> CountIn(rows, e[i - 1], e[i], n)]]

analyze_sales_distribution(d, bins) ==
    IF ~get_data(d).cols THEN {Raise("KeyError")}
    ELSE IF bins < 1 \/ get_data(d).rows = <<>> THEN {Raise("ValueError")}
    ELSE {Ok(CutValueCounts(get_data(d).rows, bins))}

(***************************************************************************)
(* int(text): surrounding blanks, an optional sign, decimal digits.        *)
(***************************************************************************)
DigitChars == <<"0", "1", "2", "3", "4", "5", "6", "7", "8", "9">>

IsDigit(c) == \E i \in 1..10 : DigitChars[i] = c

DigitValue(c) == (CHOOSE i \in 1..10 : DigitChars[i] = c) - 1

RECURSIVE Strip(_)
Strip(s) ==
    IF s = <<>> THEN s
    ELSE IF Head(s) = " " THEN Strip(Tail(s))
    ELSE IF s[Len(s)] = " " THEN Strip(SubSeq(s, 1, Len(s) - 1))
    ELSE s

RECURSIVE DigitsValue(_)
DigitsValue(s) ==
    IF s = <<>> THEN 0
    ELSE 10 * DigitsValue(SubSeq(s, 1, Len(s) - 1)) + DigitValue(s[Len(s)])

ParseInt(text) ==
    LET t == Strip(text)
        signed == t # <<>> /\ Head(t) \in {"+", "-"}
        body == IF signed THEN Tail(t) ELSE t
    IN  IF body = <<>> \/ (\E i \in 1..Len(body) : ~IsDigit(body[i]))
        THEN Raise("ValueError")
        ELSE Ok(IF signed /\ Head(t) = "-" THEN -DigitsValue(body) ELSE DigitsValue(body))

\* int(input(...) or 10)
ReadBins(text) == IF text = <<>> THEN Ok(10) ELSE ParseInt(text)

(***************************************************************************)
(* State machine                                                           *)
(***************************************************************************)
BranchInputs == {"", "A", "C"}
ProductInputs == {"X", "x"}
BinInputs ==
    {<<>>, <<"0">>, <<"-", "1">>, <<"2", ".", "5">>, <<" ", "1">>}
        \cup {<<DigitChars[n + 1]>> : n \in 1..MaxBins}
OtherChoices == {"7", ""}

Init ==
    /\ file \in Files
    /\ df = DataFrame(FALSE, <<>>)
    /\ pc = "start"
    /\ choice = "none"
    /\ branch_name = ""
    /\ product_name = ""
    /\ bins_text = <<>>
    /\ result = NoResult
    /\ stdout = {}

\* sales_data = SalesData(args.file_path)
Construct ==
    /\ pc = "start"
    /\ LET r == SalesData_init(file)
       IN  /\ df' = r.df
           /\ stdout' = stdout \cup r.out
           /\ pc' = IF r.raised THEN "crashed" ELSE "menu"
    /\ UNCHANGED <<file, choice, branch_name, product_name, bins_text, result>>

\* result is the outcome of the analysis of the latest selection (NoResult
\* when the selection runs none).  An uncaught exception leaves main();
\* otherwise the loop prompts again.
Finish(r) ==
    /\ result' = r
    /\ pc' = IF r.ok THEN "menu" ELSE "crashed"

\* Variant: the branch filter assigned back to the table of sales_data.
MonthlySales_InPlace ==
    /\ pc = "menu"
    /\ \E b \in BranchInputs :
          /\ branch_name' = b
          /\ df' = IF b # "" /\ df.cols
                   THEN DataFrame(TRUE, FilterBranch(df.rows, b)) ELSE df
          /\ \E r \in analyze_monthly_sales(df, b) : Finish(r)
    /\ choice' = "1"
    /\ product_name' = ""
    /\ bins_text' = <<>>
    /\ UNCHANGED <<file, stdout>>

\* choice "1": MonthlySalesAnalysis(sales_data).print_monthly_sales(branch_name)
MonthlySales ==
    /\ pc = "menu"
    /\ \E b \in BranchInputs :
          /\ branch_name' = b
          /\ \E r \in analyze_monthly_sales(df, b) : Finish(r)
    /\ choice' = "1"
    /\ product_name' = ""
    /\ bins_text' = <<>>
    /\ UNCHANGED <<file, df, stdout>>

\* choice "2": PriceAnalysis(sales_data).print_price_analysis(product_name)
PriceHistory ==
    /\ pc = "menu"
    /\ \E p \in ProductInputs :
          /\ product_name' = p
          /\ \E r \in analyze_product_prices(df, p) : Finish(r)
    /\ choice' = "2"
    /\ branch_name' = ""
    /\ bins_text' = <<>>
    /\ UNCHANGED <<file, df, stdout>>

\* choice "3": WeeklySalesAnalysis(sales_data).print_weekly_sales()
WeeklySales ==
    /\ pc = "menu"
    /\ \E r \in analyze_weekly_sales(df) : Finish(r)
    /\ choice' = "3"
    /\ branch_name' = ""
    /\ product_name' = ""
    /\ bins_text' = <<>>
    /\ UNCHANGED <<file, df, stdout>>

\* choice "4": ProductPreferenceAnalysis(sales_data).print_product_preferences()
ProductPreference ==
    /\ pc = "menu"
    /\ \E r \in analyze_product_preferences(df) : Finish(r)
    /\ choice' = "4"
    /\ branch_name' = ""
    /\ product_name' = ""
    /\ bins_text' = <<>>
    /\ UNCHANGED <<file, df, stdout>>

\* choice "5": bins = int(input(...) or 10), then print_sales_distribution(bins)
SalesDistribution ==
    /\ pc = "menu"
    /\ \E t \in BinInputs :
          /\ bins_text' = t
          /\ LET bins == ReadBins(t)
             IN  IF ~bins.ok THEN Finish(bins)
                 ELSE \E r \in analyze_sales_distribution(df, bins.val) : Finish(r)
    /\ choice' = "5"
    /\ branch_name' = ""
    /\ product_name' = ""
    /\ UNCHANGED <<file, df, stdout>>

\* choice "6": break
Exit ==
    /\ pc = "menu"
    /\ choice' = "6"
    /\ pc' = "done"
    /\ branch_name' = ""
    /\ product_name' = ""
    /\ bins_text' = <<>>
    /\ result' = NoResult
    /\ UNCHANGED <<file, df, stdout>>

\* else: print("Invalid choice. Please try again.")
InvalidChoice ==
    /\ pc = "menu"
    /\ choice' \in OtherChoices
    /\ stdout' = stdout \cup {"invalid_choice"}
    /\ branch_name' = ""
    /\ product_name' = ""
    /\ bins_text' = <<>>
    /\ result' = NoResult
    /\ UNCHANGED <<file, df, pc>>

Next ==
    \/ Construct
    \/ MonthlySales
    \/ PriceHistory
    \/ WeeklySales
    \/ ProductPreference
    \/ SalesDistribution
    \/ Exit
    \/ InvalidChoice

Spec == Init /\ [][Next]_vars

(***************************************************************************)
(* Properties                                                              *)
(***************************************************************************)
Kept(b) == {j \in 1..Len(df.rows) : b = "" \/ df.rows[j].Branch = b}

RECURSIVE SumCount(_)
SumCount(s) == IF s = <<>> THEN 0 ELSE Head(s).count + SumCount(Tail(s))

\* C1: on a non-empty table, the month sums analyze_monthly_sales returns
\* without a branch add up to the sum of the stored Total Amount of all rows.
C1_MonthlyTotalsAddUp ==
    (choice = "1" /\ branch_name = "" /\ df.rows # <<>>) =>
        /\ result.ok
        /\ SumTotalAmount(result.val) = SumTotalAmount(df.rows)

C1_Witness ==
    /\ choice = "1" /\ branch_name = "" /\ result.ok
    /\ Len(df.rows) = 2 /\ Len(result.val) >= 2
    /\ \E j \in 1..Len(df.rows) :
           df.rows[j].TotalAmount # df.rows[j].Price * df.rows[j].Quantity

\* C2: analyze_monthly_sales(B) raises no error on any table, each month it
\* returns sums Total Amount over the rows of that month with Branch = B, and
\* the result is empty when no row has Branch = B.
C2_BranchFilterOnly ==
    (choice = "1" /\ branch_name # "") =>
        /\ result.ok
        /\ \A i \in 1..Len(result.val) :
               LET Match(r) == /\ r.Branch = branch_name
                               /\ MonthIndex(r.Date) = MonthIndex(result.val[i].Date)
               IN  result.val[i].TotalAmount = SumTotalAmount(SelectSeq(df.rows, Match))
        /\ (Kept(branch_name) = {} => result.val = <<>>)

\* C3: what analyze_product_preferences returns has one entry per distinct
\* Product of the table, in non-increasing order of quantity sum, and its
\* quantity sums add up to the sum of Quantity over all rows.
C3_PreferenceSortedComplete ==
    (choice = "4" /\ result.ok) =>
        LET s == result.val
        IN  /\ {s[i].Product : i \in 1..Len(s)} = {df.rows[j].Product : j \in 1..Len(df.rows)}
            /\ \A i, j \in 1..Len(s) : i # j => s[i].Product # s[j].Product
            /\ \A i \in 1..(Len(s) - 1) : s[i].Quantity >= s[i + 1].Quantity
            /\ SumQuantity(s) = SumQuantity(df.rows)

C3_Witness ==
    /\ choice = "4" /\ result.ok /\ Len(result.val) = 2
    /\ result.val[1].Quantity > result.val[2].Quantity

\* C4: on a non-empty table and for a positive bin count n,
\* analyze_sales_distribution returns n intervals in ascending order of lower
\* bound, every row lies in exactly one of them, and the counts add up to the
\* number of rows.
C4_DistributionCountsRows ==
    LET b == ReadBins(bins_text)
    IN  (choice = "5" /\ b.ok /\ b.val >= 1 /\ df.rows # <<>>) =>
            LET s == result.val
            IN  /\ result.ok
                /\ Len(s) = b.val
                /\ \A i \in 1..(Len(s) - 1) : s[i].left < s[i + 1].left
                /\ \A j \in 1..Len(df.rows) :
                       Cardinality({i \in 1..Len(s) :
                           /\ s[i].left < 1000 * b.val * df.rows[j].TotalAmount
                           /\ 1000 * b.val * df.rows[j].TotalAmount <= s[i].right}) = 1
                /\ SumCount(s) = Len(df.rows)

C4_Witness ==
    /\ choice = "5" /\ result.ok /\ Len(df.rows) = 2 /\ Len(result.val) = 2
    /\ result.val[1].count = 1 /\ result.val[2].count = 1

\* C5: on a loaded table, a bin count that is not a positive integer is
\* rejected and the menu prompts again: the session goes on and no
\* distribution is computed.
C5_InvalidBinsReprompt ==
    (/\ choice = "5"
     /\ df.rows # <<>>
     /\ bins_text # <<>>
     /\ (~ParseInt(bins_text).ok \/ ParseInt(bins_text).val < 1)) =>
        /\ pc = "menu"
        /\ result.val = <<>>

\* C6: when the input file does not exist, constructing SalesData prints the
\* diagnostic, leaves the table empty and main goes on to the menu prompt.
C6_MissingFileNotFatal ==
    [][(pc = "start" /\ ~file.exists) =>
          /\ pc' = "menu"
          /\ df'.rows = <<>>
          /\ "file_not_found" \in stdout']_vars

C6_Witness ==
    /\ ~file.exists /\ pc = "menu" /\ choice = "none"
    /\ df.rows = <<>> /\ "file_not_found" \in stdout

\* C7: after any sequence of selections the table of sales_data holds the
\* rows of the loaded file, in the same order.
C7_TableUnchanged ==
    pc # "start" => df.rows = (IF file.exists THEN file.rows ELSE <<>>)

C7_Witness ==
    /\ pc = "menu" /\ choice = "1" /\ branch_name = "A" /\ result.ok
    /\ Len(result.val) = 1 /\ Len(df.rows) = 2
    /\ \E j \in 1..Len(df.rows) : df.rows[j].Branch # "A"

\* C8: analyze_product_prices(P) raises no error on any table and returns
\* the (Date, Price) pairs of exactly the rows with Product = P, once each
\* and in table order (empty when no row matches).
C8_PriceHistoryExact ==
    choice = "2" =>
        /\ result.ok
        /\ \E f \in [1..Len(result.val) -> 1..Len(df.rows)] :
               /\ \A k, l \in 1..Len(result.val) : k < l => f[k] < f[l]
               /\ {f[k] : k \in 1..Len(result.val)} =
                      {j \in 1..Len(df.rows) : df.rows[j].Product = product_name}
               /\ \A k \in 1..Len(result.val) :
                      result.val[k] =
                          [Date |-> df.rows[f[k]].Date, Price |-> df.rows[f[k]].Price]

\* C9 (as claimed): the pairs analyze_monthly_sales returns are in strictly
\* ascending month order and there is a pair for a month only if a (filtered)
\* row has its Date in that month.
C9_EmptyMonthsOmitted ==
    (choice = "1" /\ result.ok) =>
        LET s == result.val
        IN  /\ \A i \in 1..(Len(s) - 1) : MonthIndex(s[i].Date) < MonthIndex(s[i + 1].Date)
            /\ \A i \in 1..Len(s) :
                   \E j \in Kept(branch_name) :
                       MonthIndex(df.rows[j].Date) = MonthIndex(s[i].Date)

\* C9 (amended): the pairs analyze_monthly_sales returns are in strictly
\* ascending month order, are labelled by month ends, and cover exactly the
\* months from the earliest to the latest month of a (filtered) row; a month
\* of that span without rows has the sum 0.
C9_MonthSpanZeroFilled ==
    (choice = "1" /\ result.ok) =>
        LET s == result.val
            months == {MonthIndex(df.rows[j].Date) : j \in Kept(branch_name)}
        IN  /\ \A i \in 1..(Len(s) - 1) : MonthIndex(s[i].Date) < MonthIndex(s[i + 1].Date)
            /\ \A i \in 1..Len(s) : s[i].Date.day = DaysInMonth(s[i].Date.year, s[i].Date.month)
            /\ \A i \in 1..Len(s) :
                   /\ \E x \in months : x <= MonthIndex(s[i].Date)
                   /\ \E x \in months : MonthIndex(s[i].Date) <= x
            /\ \A x, y \in months : \A m \in x..y :
                   \E i \in 1..Len(s) : MonthIndex(s[i].Date) = m
            /\ \A i \in 1..Len(s) :
                   MonthIndex(s[i].Date) \notin months => s[i].TotalAmount = 0

C9_Witness ==
    /\ choice = "1" /\ result.ok /\ Len(result.val) = 4
    /\ result.val[2].TotalAmount = 0 /\ result.val[3].TotalAmount = 0
    /\ result.val[2].Date = Date(2024, 2, 29)

\* C10: every selection other than "6" is followed by the menu prompt, an
\* unrecognised choice prints the diagnostic and runs no analysis, and the
\* session ends only on choice "6".
C10_OnlyExitEndsSession ==
    [][pc = "menu" =>
          /\ (choice' # "6" => pc' = "menu")
          /\ (pc' # "menu" => choice' = "6")
          /\ (choice' \in OtherChoices =>
                 "invalid_choice" \in stdout' /\ result' = NoResult)]_vars

====
